---- MODULE Spec2Model ----
(***************************************************************************)
(* Model of src/data_preprocessor.py: the class DataPreprocessor, which    *)
(* holds a train and a test dataframe and sequences the engine's feature   *)
(* transformers over both.                                                 *)
(*                                                                         *)
(* A dataframe is a schema (a sequence of fields: name, type, ML metadata) *)
(* and a sequence of rows.  The engine evaluates columns lazily: a cell    *)
(* whose evaluation raises (a UDF on None, an unseen label, a null in an   *)
(* assembled column) is the cell Err, and the call that built it returns   *)
(* normally; only a call that has to read the cell (a fit, toPandas) fails.*)
(*                                                                         *)
(* A column name is a sequence of tokens (<<"a", "_cat">> is "a_cat"), a   *)
(* string value a sequence of characters, so that suffix appending,        *)
(* endswith, the substring test and strip are computed, not assumed.       *)
(***************************************************************************)
EXTENDS Integers, Sequences, FiniteSets, TLC

VARIABLES constructed, train_df, test_df, train_encoded_df, test_encoded_df,
          last, shadow

vars == <<constructed, train_df, test_df, train_encoded_df, test_encoded_df,
          last, shadow>>

----------------------------------------------------------------------------
(* Bounds of the model *)

\* rows of a dataframe handed to the constructor
MaxRows == 2
\* rows of a test dataframe handed to the constructor
MaxTestRows == 1
\* columns a single-step call may leave in a dataframe
MaxWidth == 4
\* columns listed in a single-step call
MaxArgs == 2

----------------------------------------------------------------------------
(* Cells *)

Null == [tag |-> "null", str |-> <<>>, num |-> 0, vec |-> <<>>]
Err == [tag |-> "err", str |-> <<>>, num |-> 0, vec |-> <<>>]
Str(s) == [tag |-> "str", str |-> s, num |-> 0, vec |-> <<>>]
Num(n) == [tag |-> "num", str |-> <<>>, num |-> n, vec |-> <<>>]
Vec(v) == [tag |-> "vec", str |-> <<>>, num |-> 0, vec |-> v]

\* the value of an attribute that is not set
None == [none |-> TRUE]

----------------------------------------------------------------------------
(* Generic sequence helpers *)

Range(s) == {s[i] : i \in 1..Len(s)}

NoDup(s) == \A i, j \in 1..Len(s) : s[i] = s[j] => i = j

RECURSIVE Flatten(_)
Flatten(ss) == IF ss = <<>> THEN <<>> ELSE Head(ss) \o Flatten(Tail(ss))

RECURSIVE SumSeq(_)
SumSeq(s) == IF s = <<>> THEN 0 ELSE Head(s) + SumSeq(Tail(s))

\* Python: col.endswith(suffix)
EndsWith(col, suffix) ==
    /\ Len(col) >= Len(suffix)
    /\ SubSeq(col, Len(col) - Len(suffix) + 1, Len(col)) = suffix

\* Python: sub in col
Contains(col, sub) ==
    \E i \in 1..(Len(col) - Len(sub) + 1) : SubSeq(col, i, i + Len(sub) - 1) = sub

----------------------------------------------------------------------------
(* Strings: str.strip and the engine's alphabetical order *)

RECURSIVE LStrip(_, _)
LStrip(s, chars) ==
    IF s # <<>> /\ Head(s) \in chars THEN LStrip(Tail(s), chars) ELSE s

RECURSIVE RStrip(_, _)
RStrip(s, chars) ==
    IF s # <<>> /\ s[Len(s)] \in chars THEN RStrip(SubSeq(s, 1, Len(s) - 1), chars) ELSE s

\* Python: x.strip(chars)
Strip(s, chars) == RStrip(LStrip(s, chars), chars)

\* code point order of the characters the model uses
CharOrd(c) == CASE c = " " -> 32 [] c = "b" -> 98 [] c = "r" -> 114 [] OTHER -> 120

RECURSIVE StrLess(_, _)
StrLess(s, t) ==
    IF t = <<>> THEN FALSE
    ELSE IF s = <<>> THEN TRUE
    ELSE IF Head(s) = Head(t) THEN StrLess(Tail(s), Tail(t))
    ELSE CharOrd(Head(s)) < CharOrd(Head(t))

----------------------------------------------------------------------------
(* Dataframes *)

Field(name, type, meta) == [name |-> name, type |-> type, meta |-> meta]

NoMeta == -1

DataFrame(schema, rows) == [schema |-> schema, rows |-> rows]

Columns(df) == [i \in 1..Len(df.schema) |-> df.schema[i].name]

HasCol(df, c) == \E i \in 1..Len(df.schema) : df.schema[i].name = c

ColIdx(df, c) == CHOOSE i \in 1..Len(df.schema) :
    /\ df.schema[i].name = c
    /\ \A j \in 1..(i - 1) : df.schema[j].name # c

FieldOf(df, c) == df.schema[ColIdx(df, c)]

\* the cells of column c, in row order
ColumnCells(df, c) == [r \in 1..Len(df.rows) |-> df.rows[r][ColIdx(df, c)]]

\* the engine's numeric types, as dtypes spells them
NumericTypes == {"int", "bigint", "double"}

----------------------------------------------------------------------------
(* The engine's operators, as the class calls them *)

Failed == [ok |-> FALSE]

\* line 56: func.udf(lambda x: x.strip(to_strip + " ")); a UDF gets None for
\* a null, and None.strip raises when the cell is evaluated
StripUdf(cell, chars) ==
    IF cell.tag = "str" THEN Str(Strip(cell.str, chars)) ELSE Err

\* lines 58-59: df.withColumn(column, strip_column_udf(column)); the column
\* exists, so it is replaced in place; a UDF's result type is string
WithColumnStripped(df, c, chars) ==
    LET k == ColIdx(df, c) IN
    DataFrame([df.schema EXCEPT ![k] = Field(c, "string", NoMeta)],
              [r \in 1..Len(df.rows) |->
                  [df.rows[r] EXCEPT ![k] = StripUdf(df.rows[r][k], chars)]])

\* a column appended to df: cells[r] is its cell in row r
WithColumnAppended(df, fld, cells) ==
    DataFrame(Append(df.schema, fld),
              [r \in 1..Len(df.rows) |-> Append(df.rows[r], cells[r])])

(* StringIndexer *)

StringIndexer(inputCol, outputCol) ==
    [kind |-> "StringIndexer", inputCol |-> inputCol, outputCol |-> outputCol]

\* validateAndTransformSchema: the input column is there, the output is not
StringIndexerSchemaOk(st, df) ==
    /\ HasCol(df, st.inputCol)
    /\ FieldOf(df, st.inputCol).type \in NumericTypes \cup {"string"}
    /\ ~HasCol(df, st.outputCol)

CountOf(cells, v) == Cardinality({r \in 1..Len(cells) : cells[r] = v})

\* frequencyDesc: most frequent first, equal frequencies alphabetically
LabelBefore(cells, v, w) ==
    \/ CountOf(cells, v) > CountOf(cells, w)
    \/ CountOf(cells, v) = CountOf(cells, w) /\ StrLess(v.str, w.str)

\* the labels of the column, nulls left out, in index order
FrequencyDescLabels(cells) ==
    LET vals == {c \in Range(cells) : c.tag = "str"}
        rank(v) == Cardinality({w \in vals : LabelBefore(cells, w, v)})
    IN [i \in 1..Cardinality(vals) |-> (CHOOSE v \in vals : rank(v) = i - 1).str]

\* fit counts the values of the input column: every cell of it is evaluated
StringIndexerFit(st, df) ==
    IF ~StringIndexerSchemaOk(st, df) THEN Failed
    ELSE LET cells == ColumnCells(df, st.inputCol) IN
         IF Err \in Range(cells) THEN Failed
         ELSE [ok |-> TRUE,
               model |-> [kind |-> "StringIndexerModel", inputCol |-> st.inputCol,
                          outputCol |-> st.outputCol,
                          labels |-> FrequencyDescLabels(cells)]]

LabelIndex(labels, s) == CHOOSE i \in 1..Len(labels) : labels[i] = s

\* handleInvalid = "error": a null or an unseen label raises on evaluation
StringIndexerCell(m, cell) ==
    IF cell.tag = "str" /\ cell.str \in Range(m.labels)
    THEN Num(LabelIndex(m.labels, cell.str) - 1)
    ELSE Err

\* the output is a double column with the labels as nominal metadata
StringIndexerTransform(m, df) ==
    IF ~StringIndexerSchemaOk(m, df) THEN Failed
    ELSE LET k == ColIdx(df, m.inputCol) IN
         [ok |-> TRUE,
          df |-> WithColumnAppended(df, Field(m.outputCol, "double", Len(m.labels)),
                    [r \in 1..Len(df.rows) |-> StringIndexerCell(m, df.rows[r][k])])]

(* Pipeline of StringIndexer stages *)

RECURSIVE PipelineFit(_, _)
PipelineFit(stages, df) ==
    IF stages = <<>> THEN [ok |-> TRUE, models |-> <<>>]
    ELSE LET f == StringIndexerFit(Head(stages), df) IN
         IF ~f.ok THEN Failed
         ELSE IF Tail(stages) = <<>> THEN [ok |-> TRUE, models |-> <<f.model>>]
         ELSE LET t == StringIndexerTransform(f.model, df) IN
              IF ~t.ok THEN Failed
              ELSE LET rest == PipelineFit(Tail(stages), t.df) IN
                   IF ~rest.ok THEN Failed
                   ELSE [ok |-> TRUE, models |-> <<f.model>> \o rest.models]

RECURSIVE PipelineTransform(_, _)
PipelineTransform(models, df) ==
    IF models = <<>> THEN [ok |-> TRUE, df |-> df]
    ELSE LET t == StringIndexerTransform(Head(models), df) IN
         IF ~t.ok THEN Failed ELSE PipelineTransform(Tail(models), t.df)

(* OneHotEncoder, dropLast = True, handleInvalid = "error" *)

\* every input is a numeric column, no output exists or is named twice
OneHotSchemaOk(m, df) ==
    /\ Len(m.inputCols) = Len(m.outputCols)
    /\ \A i \in 1..Len(m.inputCols) :
          /\ HasCol(df, m.inputCols[i])
          /\ FieldOf(df, m.inputCols[i]).type \in NumericTypes
          /\ ~HasCol(df, m.outputCols[i])
    /\ NoDup(m.outputCols)

\* a column without nominal metadata is scanned: its values must be indices
OneHotScanOk(df, c) ==
    \/ FieldOf(df, c).meta # NoMeta
    \/ \A cell \in Range(ColumnCells(df, c)) : cell.tag = "num" /\ cell.num >= 0

MaxOf(S) == IF S = {} THEN 0 ELSE CHOOSE n \in S : \A k \in S : k <= n

\* the number of categories: the metadata's, else the largest value plus one
CategorySize(df, c) ==
    IF FieldOf(df, c).meta # NoMeta THEN FieldOf(df, c).meta
    ELSE MaxOf({cell.num : cell \in Range(ColumnCells(df, c))}) + 1

\* with dropLast a column needs at least two categories
OneHotEncoderFit(enc, df) ==
    IF ~OneHotSchemaOk(enc, df) THEN Failed
    ELSE IF \E i \in 1..Len(enc.inputCols) : ~OneHotScanOk(df, enc.inputCols[i])
    THEN Failed
    ELSE LET sizes == [i \in 1..Len(enc.inputCols) |-> CategorySize(df, enc.inputCols[i])] IN
         IF \E i \in 1..Len(sizes) : sizes[i] < 2 THEN Failed
         ELSE [ok |-> TRUE,
               model |-> [kind |-> "OneHotEncoderModel", inputCols |-> enc.inputCols,
                          outputCols |-> enc.outputCols, categorySizes |-> sizes]]

\* index v of n categories, the last dropped
OneHotVector(v, n) == [i \in 1..(n - 1) |-> IF i = v + 1 THEN 1 ELSE 0]

OneHotCell(cell, n) ==
    IF cell.tag = "num" /\ cell.num >= 0 /\ cell.num < n
    THEN Vec(OneHotVector(cell.num, n))
    ELSE Err

\* the metadata of an input column must name the fitted number of categories
OneHotMetaOk(m, df) ==
    \A i \in 1..Len(m.inputCols) :
        FieldOf(df, m.inputCols[i]).meta \in {NoMeta, m.categorySizes[i]}

RECURSIVE OneHotAppend(_, _, _)
OneHotAppend(m, df, i) ==
    IF i > Len(m.inputCols) THEN df
    ELSE LET k == ColIdx(df, m.inputCols[i])
             n == m.categorySizes[i]
         IN OneHotAppend(m,
                WithColumnAppended(df, Field(m.outputCols[i], "vector", n - 1),
                    [r \in 1..Len(df.rows) |-> OneHotCell(df.rows[r][k], n)]),
                i + 1)

OneHotEncoderTransform(m, df) ==
    IF ~OneHotSchemaOk(m, df) THEN Failed
    ELSE IF ~OneHotMetaOk(m, df) THEN Failed
    ELSE [ok |-> TRUE, df |-> OneHotAppend(m, df, 1)]

(* VectorAssembler, handleInvalid = "error" *)

AssemblerSchemaOk(va, df) ==
    /\ \A i \in 1..Len(va.inputCols) :
          /\ HasCol(df, va.inputCols[i])
          /\ FieldOf(df, va.inputCols[i]).type \in NumericTypes \cup {"vector"}
    /\ ~HasCol(df, va.outputCol)

CellSlots(cell) == IF cell.tag = "vec" THEN cell.vec ELSE <<cell.num>>

\* a null, or a cell that raises, in any input raises for the row
AssembledCell(va, df, row) ==
    LET cells == [i \in 1..Len(va.inputCols) |-> row[ColIdx(df, va.inputCols[i])]] IN
    IF \E i \in 1..Len(cells) : cells[i].tag \notin {"num", "vec"} THEN Err
    ELSE Vec(Flatten([i \in 1..Len(cells) |-> CellSlots(cells[i])]))

FieldSlots(fld) == IF fld.type = "vector" THEN fld.meta ELSE 1

VectorAssemblerTransform(va, df) ==
    IF ~AssemblerSchemaOk(va, df) THEN Failed
    ELSE LET size == SumSeq([i \in 1..Len(va.inputCols) |->
                                FieldSlots(FieldOf(df, va.inputCols[i]))]) IN
         [ok |-> TRUE,
          df |-> WithColumnAppended(df, Field(va.outputCol, "vector", size),
                    [r \in 1..Len(df.rows) |-> AssembledCell(va, df, df.rows[r])])]

(* the calls of _fit_and_transform, by the kind of the stage *)

\* line 136: hasattr(model, "fit")
HasFit(model) == model.kind \in {"Pipeline", "OneHotEncoder"}

Fit(model, df) ==
    IF model.kind = "Pipeline"
    THEN LET f == PipelineFit(model.stages, df) IN
         IF ~f.ok THEN Failed
         ELSE [ok |-> TRUE, model |-> [kind |-> "PipelineModel", stages |-> f.models]]
    ELSE OneHotEncoderFit(model, df)

Transform(model, df) ==
    CASE model.kind = "PipelineModel" -> PipelineTransform(model.stages, df)
      [] model.kind = "OneHotEncoderModel" -> OneHotEncoderTransform(model, df)
      [] OTHER -> VectorAssemblerTransform(model, df)

----------------------------------------------------------------------------
(* The class DataPreprocessor *)

\* line 19
indexed_suffix == <<"_cat">>
\* line 18
one_hot_suffix == <<"_vec">>
\* line 86: the default of out_name, and the column line 189 selects
features_name == <<"features">>
\* line 189
label_name == <<"label">>

\* line 162: [col for col, data_type in df.dtypes if data_type in types]
cols_of_types(df, types) ==
    LET sel == SelectSeq(df.schema, LAMBDA f : f.type \in Range(types)) IN
    [i \in 1..Len(sel) |-> sel[i].name]

get_cols_by_types(train, test, types) ==
    LET train_cols == cols_of_types(train, types)
        test_cols == cols_of_types(test, types)
    IN [ok |-> train_cols = test_cols, cols |-> train_cols]

factors(train, test) == get_cols_by_types(train, test, <<"string">>)

numeric_columns(train, test) == get_cols_by_types(train, test, <<"double", "int">>)

\* a variant asking for one factor among the listed columns
assert_some_factor(train, test, columns) ==
    \/ columns = <<>>
    \/ \E i \in 1..Len(columns) :
          /\ factors(train, test).ok
          /\ columns[i] \in Range(factors(train, test).cols)

\* all() over a generator: self.factors is read once per column, so an empty
\* argument list passes without reading it
assert_are_factors(train, test, columns) ==
    \A i \in 1..Len(columns) :
        /\ factors(train, test).ok
        /\ columns[i] \in Range(factors(train, test).cols)

\* the outcome of a call: whether it returned, the dataframes it leaves in
\* self.train_df and self.test_df, and the fitted stages it produced
Outcome(ok, train, test, fitted) ==
    [ok |-> ok, train |-> train, test |-> test, fitted |-> fitted]

\* a variant that leaves self.test_df as it was
transform_test_skipped(train, test, m, t1) ==
    Outcome(TRUE, t1, test, <<m>>)

\* line 139, with the fitted stage m and the transformed train dataframe t1
transform_test(train, test, m, t1) ==
    IF ~Transform(m, test).ok THEN Outcome(FALSE, t1, test, <<>>)
    ELSE Outcome(TRUE, t1, Transform(m, test).df, <<m>>)

\* line 138
transform_both(train, test, m) ==
    IF ~Transform(m, train).ok THEN Outcome(FALSE, train, test, <<>>)
    ELSE transform_test(train, test, m, Transform(m, train).df)

\* a variant that returns quietly when the fit raises
fitted_or_skipped(train, test, f) ==
    IF ~f.ok THEN Outcome(TRUE, train, test, <<>>)
    ELSE transform_both(train, test, f.model)

\* lines 136-137, f the result of model.fit(self.train_df)
fitted_then_transform(train, test, f) ==
    IF ~f.ok THEN Outcome(FALSE, train, test, <<>>)
    ELSE transform_both(train, test, f.model)

\* a variant that fits on self.test_df
fit_on_test(train, test, model) ==
    IF HasFit(model) THEN fitted_then_transform(train, test, Fit(model, test))
    ELSE transform_both(train, test, model)

\* lines 135-140
fit_and_transform(train, test, model) ==
    IF HasFit(model) THEN fitted_then_transform(train, test, Fit(model, train))
    ELSE transform_both(train, test, model)

\* lines 57-59
RECURSIVE strip_loop(_, _, _, _)
strip_loop(train, test, columns, chars) ==
    IF columns = <<>> THEN Outcome(TRUE, train, test, <<>>)
    ELSE strip_loop(WithColumnStripped(train, Head(columns), chars),
                    WithColumnStripped(test, Head(columns), chars),
                    Tail(columns), chars)

strip_columns(train, test, columns, to_strip) ==
    IF ~assert_are_factors(train, test, columns) THEN Outcome(FALSE, train, test, <<>>)
    ELSE strip_loop(train, test, columns, Range(to_strip \o <<" ">>))

string_index(train, test, columns, suffix) ==
    IF ~assert_are_factors(train, test, columns) THEN Outcome(FALSE, train, test, <<>>)
    ELSE fit_and_transform(train, test,
            [kind |-> "Pipeline",
             stages |-> [i \in 1..Len(columns) |->
                            StringIndexer(columns[i], columns[i] \o suffix)]])

one_hot_encode(train, test, columns, suffix) ==
    fit_and_transform(train, test,
        [kind |-> "OneHotEncoder", inputCols |-> columns,
         outputCols |-> [i \in 1..Len(columns) |-> columns[i] \o suffix]])

assemble_features(train, test, columns, out_name) ==
    fit_and_transform(train, test,
        [kind |-> "VectorAssembler", inputCols |-> columns, outputCol |-> out_name])

\* both read self.factors / self.numeric_columns, which may raise
one_hot_encode_columns(train, test, target_col) ==
    LET f == factors(train, test)
        sel == SelectSeq(f.cols, LAMBDA fac : fac # target_col)
    IN [ok |-> f.ok, cols |-> [i \in 1..Len(sel) |-> sel[i] \o indexed_suffix]]

columns_to_assemble(train, test, target_col) ==
    LET n == numeric_columns(train, test)
        numeric == SelectSeq(n.cols,
                      LAMBDA col : col # target_col /\ ~EndsWith(col, indexed_suffix))
        one_hot_encoded == SelectSeq(Columns(train),
                      LAMBDA col : Contains(col, indexed_suffix \o one_hot_suffix))
    IN [ok |-> n.ok, cols |-> numeric \o one_hot_encoded]

\* a variant that keeps the target column as the label column
label_column_plain(train, test, target_col) ==
    [ok |-> factors(train, test).ok, col |-> target_col]

\* lines 103-104
label_column(train, test, target_col) ==
    LET f == factors(train, test) IN
    [ok |-> f.ok,
     col |-> IF target_col \in Range(f.cols) THEN target_col \o indexed_suffix
             ELSE target_col]

\* a variant that selects 'features' first
select_to_model_swapped(df, target_col) ==
    IF ~HasCol(df, target_col) \/ ~HasCol(df, features_name) THEN Failed
    ELSE LET picked == <<features_name, target_col>>
             renamed(c) == IF c = target_col THEN label_name ELSE c
         IN [ok |-> TRUE,
             df |-> DataFrame(
                 [i \in 1..2 |-> [FieldOf(df, picked[i]) EXCEPT !.name = renamed(picked[i])]],
                 [r \in 1..Len(df.rows) |->
                     [i \in 1..2 |-> df.rows[r][ColIdx(df, picked[i])]]])]

\* df.select(target_col, 'features').withColumnRenamed(target_col, 'label')
select_to_model(df, target_col) ==
    IF ~HasCol(df, target_col) \/ ~HasCol(df, features_name) THEN Failed
    ELSE LET picked == <<target_col, features_name>>
             renamed(c) == IF c = target_col THEN label_name ELSE c
         IN [ok |-> TRUE,
             df |-> DataFrame(
                 [i \in 1..2 |-> [FieldOf(df, picked[i]) EXCEPT !.name = renamed(picked[i])]],
                 [r \in 1..Len(df.rows) |->
                     [i \in 1..2 |-> df.rows[r][ColIdx(df, picked[i])]]])]

\* how far a prepare_to_model call got, and what it leaves behind
Progress(ok, step, train, test, train_encoded, test_encoded, fitted, listed, cols) ==
    [ok |-> ok, step |-> step, train |-> train, test |-> test,
     train_encoded |-> train_encoded, test_encoded |-> test_encoded,
     fitted |-> fitted, listed |-> listed, cols |-> cols]

\* a variant in which line 106 raises
select_test_raising(train, test, test_enc, lab, fitted, cols, e1) ==
    Progress(FALSE, 4, train, test, e1, test_enc, fitted, TRUE, cols)

\* line 106, e1 the result of line 105
select_test(train, test, test_enc, lab, fitted, cols, e1) ==
    IF ~select_to_model(test, lab).ok
    THEN Progress(FALSE, 4, train, test, e1, test_enc, fitted, TRUE, cols)
    ELSE Progress(TRUE, 5, train, test, e1, select_to_model(test, lab).df, fitted, TRUE, cols)

\* line 105, lab the label column of lines 103-104
select_train(train, test, train_enc, test_enc, lab, fitted, cols) ==
    IF ~select_to_model(train, lab).ok
    THEN Progress(FALSE, 4, train, test, train_enc, test_enc, fitted, TRUE, cols)
    ELSE select_test(train, test, test_enc, lab, fitted, cols,
                     select_to_model(train, lab).df)

\* lines 103-106, after the four steps have run on (train, test)
select_both(train, test, train_enc, test_enc, target_col, fitted, cols) ==
    IF ~label_column(train, test, target_col).ok
    THEN Progress(FALSE, 4, train, test, train_enc, test_enc, fitted, TRUE, cols)
    ELSE select_train(train, test, train_enc, test_enc,
                      label_column(train, test, target_col).col, fitted, cols)

\* s4 the outcome of assemble_features on cols
after_assemble(s4, train_enc, test_enc, target_col, fitted, cols) ==
    IF ~s4.ok
    THEN Progress(FALSE, 3, s4.train, s4.test, train_enc, test_enc, fitted, TRUE, cols)
    ELSE select_both(s4.train, s4.test, train_enc, test_enc, target_col,
                     fitted \o s4.fitted, cols)

\* line 101
assemble_step(train, test, train_enc, test_enc, target_col, fitted) ==
    IF ~columns_to_assemble(train, test, target_col).ok
    THEN Progress(FALSE, 3, train, test, train_enc, test_enc, fitted, FALSE, <<>>)
    ELSE after_assemble(
            assemble_features(train, test,
                columns_to_assemble(train, test, target_col).cols, features_name),
            train_enc, test_enc, target_col, fitted,
            columns_to_assemble(train, test, target_col).cols)

\* s3 the outcome of one_hot_encode
after_one_hot(s3, train_enc, test_enc, target_col, fitted) ==
    IF ~s3.ok
    THEN Progress(FALSE, 2, s3.train, s3.test, train_enc, test_enc, fitted, FALSE, <<>>)
    ELSE assemble_step(s3.train, s3.test, train_enc, test_enc, target_col,
                       fitted \o s3.fitted)

\* line 99
one_hot_step(train, test, train_enc, test_enc, target_col, fitted) ==
    IF ~one_hot_encode_columns(train, test, target_col).ok
    THEN Progress(FALSE, 2, train, test, train_enc, test_enc, fitted, FALSE, <<>>)
    ELSE after_one_hot(
            one_hot_encode(train, test,
                one_hot_encode_columns(train, test, target_col).cols, one_hot_suffix),
            train_enc, test_enc, target_col, fitted)

\* s2 the outcome of string_index
after_index(s2, train_enc, test_enc, target_col) ==
    IF ~s2.ok
    THEN Progress(FALSE, 1, s2.train, s2.test, train_enc, test_enc, <<>>, FALSE, <<>>)
    ELSE one_hot_step(s2.train, s2.test, train_enc, test_enc, target_col, s2.fitted)

\* line 97
index_step(train, test, train_enc, test_enc, target_col) ==
    IF ~factors(train, test).ok
    THEN Progress(FALSE, 1, train, test, train_enc, test_enc, <<>>, FALSE, <<>>)
    ELSE after_index(
            string_index(train, test, factors(train, test).cols, indexed_suffix),
            train_enc, test_enc, target_col)

\* s1 the outcome of strip_columns
after_strip(s1, train_enc, test_enc, target_col) ==
    IF ~s1.ok
    THEN Progress(FALSE, 0, s1.train, s1.test, train_enc, test_enc, <<>>, FALSE, <<>>)
    ELSE index_step(s1.train, s1.test, train_enc, test_enc, target_col)

\* lines 91-106
prepare_to_model(train, test, train_enc, test_enc, target_col, to_strip) ==
    IF ~factors(train, test).ok
    THEN Progress(FALSE, 0, train, test, train_enc, test_enc, <<>>, FALSE, <<>>)
    ELSE after_strip(
            strip_columns(train, test, factors(train, test).cols, to_strip),
            train_enc, test_enc, target_col)

(* explore_factors *)

\* a count the outer join has no row for (NaN once in pandas)
NaN == -1

\* df.groupBy(column).count(): one group per value, null included
group_counts(df, column) ==
    LET cells == ColumnCells(df, column) IN
    {[value |-> v, count |-> CountOf(cells, v)] : v \in Range(cells)}

\* lines 149-154: the outer join on the column; a null key equals no key
get_join_count(train, test, column) ==
    LET train_c == group_counts(train, column)
        test_c == group_counts(test, column)
        match(t, s) == t.value = s.value /\ t.value # Null
    IN {[value |-> t.value, in_train |-> t.count, in_test |-> s.count] :
            <<t, s>> \in {p \in train_c \X test_c : match(p[1], p[2])}}
       \cup {[value |-> t.value, in_train |-> t.count, in_test |-> NaN] :
            t \in {t \in train_c : \A s \in test_c : ~match(t, s)}}
       \cup {[value |-> s.value, in_train |-> NaN, in_test |-> s.count] :
            s \in {s \in test_c : \A t \in train_c : ~match(t, s)}}

\* lines 175-176: (pandas_df[col] > 0).astype(int)
binarize(x) == IF x > 0 THEN 1 ELSE 0

binarize_pandas(table) ==
    {[value |-> row.value, in_train |-> binarize(row.in_train),
      in_test |-> binarize(row.in_test)] : row \in table}

\* lines 26-32: toPandas evaluates the column in both dataframes
explore_factors(train, test) ==
    LET f == factors(train, test) IN
    IF ~f.ok THEN Failed
    ELSE IF \E i \in 1..Len(f.cols) :
               Err \in Range(ColumnCells(train, f.cols[i]))
                        \cup Range(ColumnCells(test, f.cols[i]))
    THEN Failed
    ELSE [ok |-> TRUE,
          ret |-> [i \in 1..Len(f.cols) |->
                     [column |-> f.cols[i],
                      table |-> binarize_pandas(get_join_count(train, test, f.cols[i]))]]]

----------------------------------------------------------------------------
(* An instance, and a call on it *)

\* what the latest call was and how it ended:
\*   args     __init__: "match" or "mismatch" of the two schemas; a single-step
\*            call: whether the listed columns were factors ("empty" list,
\*            "factors" all, "mixed" some, "other" none)
\*   rerun    string_index, one_hot_encode: every output column already existed
\*   step     prepare_to_model: the steps of lines 96-106 it completed (5: all)
\*   listed, cols   prepare_to_model: line 101 was reached, with this column list
\*   fitted   the fitted stages the call produced
\*   ret      the value explore_factors returned
\*   changed  the call replaced an attribute of the instance by another value
Last(op, ok, args, rerun, target, step, listed, cols, fitted, ret, changed) ==
    [op |-> op, ok |-> ok, args |-> args, rerun |-> rerun, target |-> target,
     step |-> step, listed |-> listed, cols |-> cols, fitted |-> fitted, ret |-> ret,
     changed |-> changed]

NoCall == Last("none", TRUE, "empty", FALSE, <<>>, 0, FALSE, <<>>, <<>>, <<>>, FALSE)

Instance(train, test, train_enc, test_enc, lst) ==
    [train_df |-> train, test_df |-> test, train_encoded_df |-> train_enc,
     test_encoded_df |-> test_enc, last |-> lst]

Call(op, columns, param, target) ==
    [op |-> op, columns |-> columns, param |-> param, target |-> target]

ArgKind(df, columns) ==
    LET strings == {df.schema[i].name : i \in {i \in 1..Len(df.schema) :
                                                   df.schema[i].type = "string"}}
    IN CASE columns = <<>> -> "empty"
         [] Range(columns) \subseteq strings -> "factors"
         [] Range(columns) \cap strings = {} -> "other"
         [] OTHER -> "mixed"

AllOutputsExist(df, columns, suffix) ==
    /\ columns # <<>>
    /\ \A i \in 1..Len(columns) : HasCol(df, columns[i] \o suffix)

\* a single-step call: the dataframes it leaves, the encoded ones untouched
AfterStep(inst, call, o) ==
    [inst EXCEPT !.train_df = o.train, !.test_df = o.test,
                 !.last = Last(call.op, o.ok, ArgKind(inst.train_df, call.columns),
                               call.op \in {"string_index", "one_hot_encode"}
                                  /\ AllOutputsExist(inst.train_df, call.columns, call.param),
                               <<>>, 0, FALSE, <<>>, o.fitted, <<>>,
                               o.train # inst.train_df \/ o.test # inst.test_df)]

AfterPrepare(inst, call, p) ==
    [inst EXCEPT !.train_df = p.train, !.test_df = p.test,
                 !.train_encoded_df = p.train_encoded,
                 !.test_encoded_df = p.test_encoded,
                 !.last = Last(call.op, p.ok, "empty", FALSE, call.target, p.step,
                               p.listed, p.cols, p.fitted, <<>>,
                               \/ p.train # inst.train_df
                               \/ p.test # inst.test_df
                               \/ p.train_encoded # inst.train_encoded_df
                               \/ p.test_encoded # inst.test_encoded_df)]

AfterExplore(inst, call, e) ==
    [inst EXCEPT !.last = Last(call.op, e.ok, "empty", FALSE, <<>>, 0, FALSE, <<>>, <<>>,
                               IF e.ok THEN e.ret ELSE <<>>, FALSE)]

Apply(inst, call) ==
    CASE call.op = "strip_columns" ->
            AfterStep(inst, call,
                strip_columns(inst.train_df, inst.test_df, call.columns, call.param))
      [] call.op = "string_index" ->
            AfterStep(inst, call,
                string_index(inst.train_df, inst.test_df, call.columns, call.param))
      [] call.op = "one_hot_encode" ->
            AfterStep(inst, call,
                one_hot_encode(inst.train_df, inst.test_df, call.columns, call.param))
      [] call.op = "assemble_features" ->
            AfterStep(inst, call,
                assemble_features(inst.train_df, inst.test_df, call.columns, call.param))
      [] call.op = "prepare_to_model" ->
            AfterPrepare(inst, call,
                prepare_to_model(inst.train_df, inst.test_df, inst.train_encoded_df,
                                 inst.test_encoded_df, call.target, call.param))
      [] OTHER ->
            AfterExplore(inst, call, explore_factors(inst.train_df, inst.test_df))

----------------------------------------------------------------------------
(* Inputs *)

\* a row draws its string cells and its numeric cells from one template
Template(s, n) == [str |-> s, num |-> n]

RowOf(schema, t) ==
    [i \in 1..Len(schema) |-> IF schema[i].type = "string" THEN t.str ELSE t.num]

Templates ==
    <<Template(Str(<<"r">>), Num(0)), Template(Str(<<"b">>), Num(1)),
      Template(Str(<<" ", "r">>), Num(1)), Template(Null, Num(0))>>

Rows(schema, picks) == [r \in 1..Len(picks) |-> RowOf(schema, Templates[picks[r]])]

\* the dataframe whose rows are picks, or one without rows
Example(schema, picks, empty) ==
    DataFrame(schema, IF empty THEN <<>> ELSE Rows(schema, picks))

\* the dataframes of a schema with at most n rows
Datasets(schema, n) ==
    {DataFrame(schema, Rows(schema, picks)) :
        picks \in UNION {[1..m -> 1..Len(Templates)] : m \in 0..n}}

\* the templates of the rows of the train and of the test dataframe, in order
TrainPicks == <<1, 2, 1>>
TestPicks == <<2, 3>>

\* the columns a dataframe is built from
InitFields ==
    {Field(<<"a">>, "string", NoMeta), Field(<<"b">>, "string", NoMeta),
     Field(<<"b">>, "int", NoMeta), Field(<<"b">>, "bigint", NoMeta),
     Field(<<"b">>, "double", NoMeta), Field(<<"a", "_cat">>, "int", NoMeta),
     Field(<<"a", "_cat", "_vec">>, "int", NoMeta)}

\* the schemas of the runs that vary the rows
DataSchemas ==
    {<<Field(<<"a">>, "string", NoMeta), Field(<<"b">>, "int", NoMeta)>>,
     <<Field(<<"a">>, "string", NoMeta), Field(<<"b">>, "string", NoMeta)>>,
     <<Field(<<"b">>, "double", NoMeta), Field(<<"a">>, "string", NoMeta)>>}

PairSchema == <<Field(<<"a">>, "string", NoMeta), Field(<<"b">>, "int", NoMeta)>>

InitSchemas ==
    {<<f>> : f \in InitFields}
    \cup {<<f, g>> : <<f, g>> \in {p \in InitFields \X InitFields : p[1].name # p[2].name}}

\* schemas that differ from s in a type or in the order
Mismatched(s) ==
    {[s EXCEPT ![1].type = IF s[1].type = "int" THEN "double" ELSE "int"]}
    \cup {t \in {[i \in 1..Len(s) |-> s[Len(s) + 1 - i]]} : t # s}

\* a column no dataframe has
absent_name == <<"z">>

\* the n-th element of a set of numbers, in increasing order
RECURSIVE Nth(_, _)
Nth(S, n) ==
    LET least == CHOOSE x \in S : \A y \in S : x <= y IN
    IF n = 1 THEN least ELSE Nth(S \ {least}, n - 1)

\* at most MaxArgs columns of df, in schema order
ColumnArgs(df) ==
    {[k \in 1..Cardinality(idx) |-> df.schema[Nth(idx, k)].name] :
        idx \in {S \in SUBSET (1..Len(df.schema)) : Cardinality(S) <= MaxArgs}}

StripArgs == {<<" ">>}

----------------------------------------------------------------------------
(* Actions *)

Init ==
    /\ constructed = FALSE
    /\ train_df = None
    /\ test_df = None
    /\ train_encoded_df = None
    /\ test_encoded_df = None
    /\ last = NoCall
    /\ shadow = None

\* lines 11-19: __init__(train, test); the assertion leaves no instance
Construct(train, test, other) ==
    /\ ~constructed
    /\ IF train.schema = test.schema
       THEN /\ constructed' = TRUE
            /\ train_df' = train
            /\ test_df' = test
            /\ last' = Last("__init__", TRUE, "match", FALSE, <<>>, 0, FALSE, <<>>, <<>>, <<>>,
                             TRUE)
            /\ shadow' = IF other = None THEN None
                         ELSE Instance(train, other, None, None, last')
       ELSE /\ last' = Last("__init__", FALSE, "mismatch", FALSE, <<>>, 0, FALSE, <<>>, <<>>, <<>>,
                             FALSE)
            /\ UNCHANGED <<constructed, train_df, test_df, shadow>>
    /\ UNCHANGED <<train_encoded_df, test_encoded_df>>

Self == Instance(train_df, test_df, train_encoded_df, test_encoded_df, last)

\* A call that replaced no attribute, whether it returned or raised, leaves the
\* instance as it was before the call, so the calls after it are the calls
\* after that state: the search does not start from it again.
Live ==
    /\ constructed
    /\ IF shadow = None THEN last.changed ELSE last.changed \/ shadow.last.changed

\* the call on each instance there is
ApplyAll(insts, call) ==
    [i \in 1..Len(insts) |-> IF insts[i] = None THEN None ELSE Apply(insts[i], call)]

Store(insts) ==
    /\ train_df' = insts[1].train_df
    /\ test_df' = insts[1].test_df
    /\ train_encoded_df' = insts[1].train_encoded_df
    /\ test_encoded_df' = insts[1].test_encoded_df
    /\ last' = insts[1].last
    /\ shadow' = insts[2]

\* a call on the instance, and the same call on the shadow instance
Step(call) ==
    /\ Live
    /\ Store(ApplyAll(<<Self, shadow>>, call))
    /\ UNCHANGED constructed

\* a single-step call, taken while the dataframes stay within MaxWidth columns
Single(call) ==
    /\ Step(call)
    /\ Len(train_df'.schema) <= MaxWidth

New ==
    \E s \in InitSchemas :
        \E t \in {s} \cup Mismatched(s), empty \in BOOLEAN :
            Construct(Example(s, TrainPicks, empty), Example(t, TestPicks, empty), None)

StripColumns ==
    /\ Live
    /\ \E columns \in ColumnArgs(train_df), to_strip \in StripArgs :
          Single(Call("strip_columns", columns, to_strip, <<>>))

StringIndex ==
    /\ Live
    /\ \E columns \in ColumnArgs(train_df) :
          Single(Call("string_index", columns, indexed_suffix, <<>>))

OneHotEncode ==
    /\ Live
    /\ \E columns \in ColumnArgs(train_df) :
          Single(Call("one_hot_encode", columns, one_hot_suffix, <<>>))

AssembleFeatures ==
    /\ Live
    /\ \E columns \in ColumnArgs(train_df) :
          Single(Call("assemble_features", columns, features_name, <<>>))

PrepareToModel ==
    /\ Live
    /\ \E target \in Range(Columns(train_df)) \cup {absent_name}, to_strip \in StripArgs :
          Step(Call("prepare_to_model", <<>>, to_strip, target))

ExploreFactors ==
    /\ Live
    /\ Step(Call("explore_factors", <<>>, <<>>, <<>>))

\* instances of the schemas of DataSchemas, over all rows within the bounds
NewData ==
    \E s \in DataSchemas :
        \E train \in Datasets(s, MaxRows), test \in Datasets(s, MaxTestRows) :
            Construct(train, test, None)

\* two instances of one train dataframe and two test dataframes
NewPair ==
    \E other \in Datasets(PairSchema, MaxTestRows) :
        Construct(Example(PairSchema, TrainPicks, FALSE),
                  Example(PairSchema, TestPicks, FALSE), other)

Next ==
    \/ New
    \/ StripColumns
    \/ StringIndex
    \/ OneHotEncode
    \/ AssembleFeatures
    \/ PrepareToModel
    \/ ExploreFactors

Spec == Init /\ [][Next]_vars

NextData ==
    \/ NewData
    \/ StripColumns
    \/ PrepareToModel
    \/ ExploreFactors

SpecData == Init /\ [][NextData]_vars

\* the calls that fit a stage, and the stripping that comes before them
NextPair ==
    \/ NewPair
    \/ StripColumns
    \/ StringIndex
    \/ OneHotEncode
    \/ PrepareToModel

SpecPair == Init /\ [][NextPair]_vars

----------------------------------------------------------------------------
(* Properties *)

Names(fields) == [i \in 1..Len(fields) |-> fields[i].name]

\* the columns of df declared with one of the types, in schema order
TypedColumns(df, types) == Names(SelectSeq(df.schema, LAMBDA f : f.type \in types))

SingleStepOps == {"strip_columns", "string_index", "one_hot_encode", "assemble_features"}

\* C1: at every moment of an instance's life train_df and test_df have the
\* same schema, and a construction from two dataframes of different schemas
\* fails and leaves no instance.
C1_SchemasAgree ==
    /\ constructed => train_df.schema = test_df.schema
    /\ (last.op = "__init__" /\ last.args = "mismatch") => ~last.ok /\ ~constructed
    /\ ~constructed => train_df = None /\ test_df = None

\* a fitted stage has been applied to both dataframes
C1_Witness ==
    /\ constructed
    /\ last.op \in {"string_index", "one_hot_encode"}
    /\ last.ok
    /\ last.fitted # <<>>
    /\ Len(train_df.schema) > 2
    /\ train_df.rows # <<>>

\* C5: factors and numeric_columns are disjoint, together they are the columns
\* of string, integer or floating-point type, each in schema order, and they
\* come out the same from train_df as from test_df.
C5_Partition ==
    constructed =>
        /\ factors(train_df, test_df).ok
        /\ numeric_columns(train_df, test_df).ok
        /\ factors(train_df, test_df).cols = TypedColumns(train_df, {"string"})
        /\ factors(train_df, test_df).cols = TypedColumns(test_df, {"string"})
        /\ numeric_columns(train_df, test_df).cols = TypedColumns(train_df, NumericTypes)
        /\ numeric_columns(train_df, test_df).cols = TypedColumns(test_df, NumericTypes)
        /\ Range(factors(train_df, test_df).cols)
              \cap Range(numeric_columns(train_df, test_df).cols) = {}

\* C7 as stated: strip_columns, string_index or one_hot_encode called with a
\* column that is not a factor fails and transforms nothing.
C7_NonFactorRejected ==
    [][(last'.op \in {"strip_columns", "string_index", "one_hot_encode"}
          /\ last'.args \in {"mixed", "other"})
       => (~last'.ok /\ train_df' = train_df /\ test_df' = test_df)]_vars

\* C7: strip_columns or string_index called with a column that is not a factor
\* fails and transforms nothing, the listed factors included.
C7_NonFactorRejectedByAssertion ==
    [][(last'.op \in {"strip_columns", "string_index"}
          /\ last'.args \in {"mixed", "other"})
       => (~last'.ok /\ train_df' = train_df /\ test_df' = test_df
             /\ last'.fitted = <<>>)]_vars

\* a call listing a factor and a non-factor has been refused
C7_Witness ==
    /\ last.op \in {"strip_columns", "string_index"}
    /\ last.args = "mixed"
    /\ ~last.ok
    /\ ~last.changed
    /\ train_df.rows # <<>>

\* C8 as stated: string_index or one_hot_encode run again on columns whose
\* outputs exist succeeds and leaves the same column names, each once.
C8_RerunSucceeds ==
    [][(last'.op \in {"string_index", "one_hot_encode"} /\ last'.rerun)
       => (last'.ok /\ Columns(train_df') = Columns(train_df)
             /\ NoDup(Columns(train_df')))]_vars

\* C8: string_index or one_hot_encode run again on columns whose outputs exist
\* fails, and leaves both dataframes, hence the column names, as they were.
C8_RerunRefused ==
    [][(last'.op \in {"string_index", "one_hot_encode"} /\ last'.rerun)
       => (~last'.ok /\ train_df' = train_df /\ test_df' = test_df)]_vars

\* one_hot_encode was run again on an indexed column that has its vector
C8_Witness ==
    /\ last.op = "one_hot_encode"
    /\ last.rerun
    /\ ~last.ok
    /\ \E i, j \in 1..Len(train_df.schema) :
          /\ train_df.schema[i].type = "double"
          /\ train_df.schema[i].meta # NoMeta
          /\ train_df.schema[j].type = "vector"
          /\ train_df.schema[j].name = train_df.schema[i].name \o one_hot_suffix

\* the list the columns of df and the target call for
ExpectedAssembled(df, target) ==
    TypedColumns([schema |-> SelectSeq(df.schema,
                     LAMBDA f : f.name # target /\ ~EndsWith(f.name, indexed_suffix))],
                 {"double", "int"})
    \o [i \in 1..Len(SelectSeq(TypedColumns(df, {"string"}), LAMBDA c : c # target)) |->
           SelectSeq(TypedColumns(df, {"string"}), LAMBDA c : c # target)[i]
              \o indexed_suffix \o one_hot_suffix]

\* C9: the list prepare_to_model assembles is the numeric columns other than
\* the target and those ending in the indexed suffix, then the one-hot column
\* of every factor other than the target, each once, none made from the target.
C9_AssembledList ==
    [][(last'.op = "prepare_to_model" /\ last'.listed)
       => /\ last'.cols = ExpectedAssembled(train_df, last'.target)
          /\ NoDup(last'.cols)
          /\ {last'.target, last'.target \o indexed_suffix,
              last'.target \o indexed_suffix \o one_hot_suffix}
                \cap Range(last'.cols) = {}]_vars

EncodedBothOrNeither == (train_encoded_df = None) <=> (test_encoded_df = None)

EncodedSetOnlyByCompletedPrepare ==
    /\ <<train_encoded_df, test_encoded_df>>' # <<train_encoded_df, test_encoded_df>>
          => last'.op = "prepare_to_model" /\ last'.ok /\ last'.step = 5
    /\ (last'.op = "prepare_to_model" /\ last'.ok)
          => train_encoded_df' # None /\ test_encoded_df' # None
    /\ (last'.op \in SingleStepOps \/ ~last'.ok)
          => UNCHANGED <<train_encoded_df, test_encoded_df>>

\* C10: the encoded dataframes are both unset or both set; they change only in
\* a prepare_to_model call that completed all its steps; a prepare_to_model
\* call that fails leaves them as they were, and so does every other call.
C10_EncodedOnlyOnCompletion ==
    [][EncodedBothOrNeither' /\ EncodedSetOnlyByCompletedPrepare]_vars

\* a prepare_to_model call failed after changing train_df, and left the
\* encoded dataframes unset
C10_Witness ==
    /\ last.op = "prepare_to_model"
    /\ ~last.ok
    /\ last.step >= 1
    /\ last.changed
    /\ train_encoded_df = None
    /\ test_encoded_df = None

\* the cells of a column of an encoded dataframe
Cells(df, c) == [r \in 1..Len(df.rows) |-> df.rows[r][ColIdx(df, c)]]

\* the values of a factor column once stripped of blanks; none for a null
Stripped(cells) ==
    [r \in 1..Len(cells) |->
        IF cells[r].tag = "str" THEN Str(Strip(cells[r].str, {" "})) ELSE Err]

\* the number of distinct values of cells that come before v: the more
\* frequent ones, and among the equally frequent the alphabetically smaller
Rank(cells, v) ==
    Cardinality({w \in Range(cells) :
        \/ CountOf(cells, w) > CountOf(cells, v)
        \/ CountOf(cells, w) = CountOf(cells, v) /\ StrLess(w.str, v.str)})

\* the code of every cell of column, given the cells the indexing was fitted on
Codes(fitted_on, column) ==
    [r \in 1..Len(column) |->
        IF column[r] \in Range(fitted_on) /\ column[r].tag = "str"
        THEN Num(Rank(fitted_on, column[r])) ELSE Err]

PreparedWith(types) ==
    /\ last'.op = "prepare_to_model"
    /\ last'.ok
    /\ HasCol(train_df, last'.target)
    /\ FieldOf(train_df, last'.target).type \in types

\* C2: after a prepare_to_model that completed on a numeric target, each
\* encoded dataframe has the columns label and features, in this order, and
\* its label cells are the cells the target column had before the call.
C2_NumericTargetIsLabel ==
    [][PreparedWith(NumericTypes)
       => /\ Columns(train_encoded_df') = <<label_name, features_name>>
          /\ Columns(test_encoded_df') = <<label_name, features_name>>
          /\ Cells(train_encoded_df', label_name) = ColumnCells(train_df, last'.target)
          /\ Cells(test_encoded_df', label_name) = ColumnCells(test_df, last'.target)
          /\ FieldOf(train_encoded_df', features_name).type = "vector"
          /\ FieldOf(test_encoded_df', features_name).type = "vector"]_vars

\* a completed call on a numeric target, with rows and a one-hot encoded factor
C2_Witness ==
    /\ last.op = "prepare_to_model"
    /\ last.ok
    /\ HasCol(train_df, last.target)
    /\ FieldOf(train_df, last.target).type \in NumericTypes
    /\ Len(last.cols) > 0
    /\ Len(train_encoded_df.rows) > 1
    /\ Len(test_encoded_df.rows) > 0

\* C3: after a prepare_to_model that completed on a factor target, the label
\* cells are the cells of <target>_cat: the index codes fitted on the stripped
\* target values of train_df, of numeric type, never the strings.
C3_FactorTargetLabelIsCode ==
    [][PreparedWith({"string"})
       => /\ Columns(train_encoded_df') = <<label_name, features_name>>
          /\ Columns(test_encoded_df') = <<label_name, features_name>>
          /\ FieldOf(train_encoded_df', label_name).type = "double"
          /\ FieldOf(test_encoded_df', label_name).type = "double"
          /\ Cells(train_encoded_df', label_name)
                = ColumnCells(train_df', last'.target \o indexed_suffix)
          /\ Cells(test_encoded_df', label_name)
                = ColumnCells(test_df', last'.target \o indexed_suffix)
          /\ Cells(train_encoded_df', label_name)
                = Codes(Stripped(ColumnCells(train_df, last'.target)),
                        Stripped(ColumnCells(train_df, last'.target)))
          /\ Cells(test_encoded_df', label_name)
                = Codes(Stripped(ColumnCells(train_df, last'.target)),
                        Stripped(ColumnCells(test_df, last'.target)))]_vars

\* a completed call on a factor target of two values, the second coded 1
C3_Witness ==
    /\ last.op = "prepare_to_model"
    /\ last.ok
    /\ HasCol(train_df, last.target)
    /\ FieldOf(train_df, last.target).type = "string"
    /\ Num(1) \in Range(Cells(train_encoded_df, label_name))
    /\ Num(0) \in Range(Cells(test_encoded_df, label_name))

\* C6: explore_factors returns, for every factor, one row per distinct value
\* of the column in train_df or test_df, with in_train and in_test telling
\* whether the value occurs in train_df and in test_df.
C6_OneRowPerValue ==
    (last.op = "explore_factors" /\ last.ok) =>
        /\ [i \in 1..Len(last.ret) |-> last.ret[i].column] = TypedColumns(train_df, {"string"})
        /\ \A i \in 1..Len(last.ret) :
              LET in_train == Range(ColumnCells(train_df, last.ret[i].column))
                  in_test == Range(ColumnCells(test_df, last.ret[i].column))
              IN /\ \A v \in in_train \cup in_test :
                       Cardinality({row \in last.ret[i].table : row.value = v}) = 1
                 /\ \A row \in last.ret[i].table :
                       /\ row.value \in in_train \cup in_test
                       /\ row.in_train = (IF row.value \in in_train THEN 1 ELSE 0)
                       /\ row.in_test = (IF row.value \in in_test THEN 1 ELSE 0)

\* C4: of two instances built on one train dataframe and two test dataframes
\* and given the same calls, the fitted stages, train_df and train_encoded_df
\* are the same after every call.
C4_FitOnTrainOnly ==
    shadow # None =>
        /\ shadow.train_df = train_df
        /\ shadow.train_encoded_df = train_encoded_df
        /\ shadow.last.fitted = last.fitted
        /\ shadow.last.ok = last.ok

\* both instances completed prepare_to_model, their test dataframes differing
C4_Witness ==
    /\ shadow # None
    /\ last.op = "prepare_to_model"
    /\ last.ok
    /\ shadow.last.ok
    /\ Len(last.fitted) > 2
    /\ shadow.test_df # test_df
    /\ shadow.test_encoded_df # test_encoded_df

====
